---- MODULE Spec2Model ----
(***************************************************************************)
(* Model of each_cmd (src/main.rs): run() loads a configuration, builds a *)
(* CpuPool of thread_count workers, dispatches one timeout-raced shell    *)
(* command per hostname and then waits for the races one after another,   *)
(* in hostname order, printing one line per race.                         *)
(*                                                                         *)
(* Strings are sequences of one-character strings.  Time is a discrete    *)
(* clock `now`; one unit is long compared with a single poll of the       *)
(* dispatcher thread, so the clock advances during the dispatch loop and  *)
(* while the dispatcher is parked in wait(), not between a wake-up and    *)
(* the poll that follows it.                                              *)
(***************************************************************************)
EXTENDS Integers, Sequences, FiniteSets, TLC

(* ---------------------------- bounds ---------------------------------- *)
MaxHosts == 2
MaxThreads == 2
MaxTimeout == 1
MaxDispatchTime == 1

MaxTemplateLen == 3
MaxTagLen == 2

HostNames == { <<"a">>, <<"b">> }
FileStates == { "ok", "unreadable", "malformed" }

VARIABLES file, config, pc, runResult, now, worker, queue, tasks,
          exec_futs, next, reported, startOrder, doneOrder

vars == << file, config, pc, runResult, now, worker, queue, tasks,
           exec_futs, next, reported, startOrder, doneOrder >>

(* ------------------------- pure helpers ------------------------------- *)
RECURSIVE SeqsUpTo(_, _)
SeqsUpTo(S, n) ==
    IF n = 0 THEN { <<>> }
    ELSE LET shorter == SeqsUpTo(S, n - 1)
         IN  shorter \cup { Append(s, x) : s \in shorter, x \in S }

RECURSIVE Interleave(_, _)
Interleave(s, to) ==
    IF s = <<>> THEN to ELSE to \o <<Head(s)>> \o Interleave(Tail(s), to)

(* Variant: only the first occurrence is replaced. *)
RECURSIVE ReplaceScan_FirstOnly(_, _, _)
ReplaceScan_FirstOnly(s, from, to) ==
    IF Len(s) < Len(from) THEN s
    ELSE IF SubSeq(s, 1, Len(from)) = from
         THEN to \o SubSeq(s, Len(from) + 1, Len(s))
         ELSE <<Head(s)>> \o ReplaceScan_FirstOnly(Tail(s), from, to)

RECURSIVE ReplaceScan(_, _, _)
ReplaceScan(s, from, to) ==
    IF Len(s) < Len(from) THEN s
    ELSE IF SubSeq(s, 1, Len(from)) = from
         THEN to \o ReplaceScan(SubSeq(s, Len(from) + 1, Len(s)), from, to)
         ELSE <<Head(s)>> \o ReplaceScan(Tail(s), from, to)

(* str::replace: every non-overlapping match, left to right; the empty    *)
(* pattern matches at every character boundary.                           *)
Replace(s, from, to) ==
    IF from = <<>> THEN Interleave(s, to) ELSE ReplaceScan(s, from, to)

(* config.cmd_to_run.replace(&config.hostname_tag, &hostname) *)
Render(cfg, hostname) == Replace(cfg.cmd_to_run, cfg.hostname_tag, hostname)

(* Duration::from_millis(config.timeout_ms); timer.sleep(timeout) fixes   *)
(* the deadline when the Sleep is created.                                *)
Deadline(t, timeout) == t + timeout

(* Variant: the deadline runs from the moment the executor call starts. *)
TimerExpired_FromStart(f, t) ==
    /\ tasks[f.task].startT >= 0
    /\ t >= tasks[f.task].startT + config.timeout_ms

(* Variant: the deadline instant itself does not count as expired. *)
TimerExpired_Strict(f, t) == t > f.when

(* Sleep::poll: ready once the deadline has been reached. *)
TimerExpired(f, t) == t >= f.when

(* Variant: the pool starts one thread too many. *)
PoolWorkers_OneExtra(n) == 1 .. (n + 1)

(* CpuPool::new(n) spawns n worker threads. *)
PoolWorkers(n) == 1 .. n

(* Variant: workers take the newest message. *)
RecvIndex_Newest(q) == Len(q)

(* Workers receive from the pool's channel: oldest message first. *)
RecvIndex(q) == 1

(* Variant: a received message stays in the channel. *)
RemoveAt_Keeps(q, i) == q

(* recv() takes the message out of the channel. *)
RemoveAt(q, i) == SubSeq(q, 1, i - 1) \o SubSeq(q, i + 1, Len(q))

(* Variant: a launch error is passed on as an empty success. *)
ActionOutcome_FailAsSuccess(t) ==
    [ task |-> t.id, kind |-> "Success", out |-> t.out ]

(* run_cmd's Result as the race sees it. *)
ActionOutcome(t) ==
    IF t.kind = "ok"
    THEN [ task |-> t.id, kind |-> "Success", out |-> t.out ]
    ELSE [ task |-> t.id, kind |-> "LaunchFailure", out |-> <<>> ]

(* Variant: the action side counts as ready before the pool has run it. *)
ActionReady_Queued(t) == t.st \in { "done", "queued" }

(* The CpuFuture resolves when its own task has sent its result. *)
ActionReady(t) == t.st = "done"

(* Variant: the dispatcher waits on the action alone, without the timer. *)
SelectPoll_ActionOnly(f, t, tk) ==
    IF ActionReady(tk) THEN ActionOutcome(tk)
    ELSE [ task |-> f.task, kind |-> "Pending", out |-> <<>> ]

(* timer.sleep(..).then(bail Timeout).select(action_fut): the timer side  *)
(* is polled first, the action side second.                               *)
SelectPoll(f, t, tk) ==
    IF TimerExpired(f, t)
    THEN [ task |-> f.task, kind |-> "TimedOut", out |-> <<>> ]
    ELSE IF ActionReady(tk) THEN ActionOutcome(tk)
    ELSE [ task |-> f.task, kind |-> "Pending", out |-> <<>> ]

(* Variant: the futures are awaited from the last to the first. *)
CurrentFut_Reversed == exec_futs[Len(exec_futs) - next + 1]

(* for exec_fut in exec_futs.into_iter() *)
CurrentFut == exec_futs[next]

(* Variant: the Err arm propagates the error out of run(). *)
AfterOutcome_Abort(o) == IF o.kind = "Success" THEN "wait" ELSE "abort"

(* Both match arms print and fall through to the next iteration. *)
AfterOutcome(o) == "wait"

(* Variant: a timeout is swallowed without a line. *)
Report_DropsTimedOut(rs, o) == IF o.kind = "TimedOut" THEN rs ELSE Append(rs, o)

(* println! on Ok, writeln!(stderr) on Err: one line per race. *)
Report(rs, o) == Append(rs, o)

(* ------------------------------ state --------------------------------- *)
N == Len(config.hostnames)

NoTask(i) == [ id |-> i, st |-> "none", kind |-> "none", cmd |-> <<>>,
               out |-> <<>>, subT |-> -1, startT |-> -1, finT |-> -1,
               dropped |-> FALSE ]

(* Hostnames are arbitrary texts: lists are taken up to renaming, the     *)
(* first hostname being "a"; duplicates and distinct names both occur.    *)
HostLists ==
    { h \in SeqsUpTo(HostNames, MaxHosts) : h = << >> \/ h[1] = <<"a">> }

Configs ==
    [ hostnames    : HostLists,
      cmd_to_run   : { <<"e", "H">> },
      hostname_tag : { <<"H">> },
      thread_count : 0 .. MaxThreads,
      timeout_ms   : 0 .. MaxTimeout ]

DefaultConfig ==
    [ hostnames |-> <<>>, cmd_to_run |-> <<"e", "H">>, hostname_tag |-> <<"H">>,
      thread_count |-> 1, timeout_ms |-> 0 ]

Init ==
    /\ file \in FileStates
    /\ config \in Configs
    /\ (file # "ok" => config = DefaultConfig)
    /\ pc = "load"
    /\ runResult = "none"
    /\ now = 0
    /\ worker = << >>
    /\ queue = << >>
    /\ tasks = [ i \in 1 .. Len(config.hostnames) |-> NoTask(i) ]
    /\ exec_futs = << >>
    /\ next = 1
    /\ reported = << >>
    /\ startOrder = << >>
    /\ doneOrder = << >>

(* ---------------------------- dispatcher ------------------------------ *)
(* File::open / read_to_string / serde_json::from_str, each with `?`. *)
LoadConfig ==
    /\ pc = "load"
    /\ IF file = "ok"
       THEN pc' = "pool" /\ runResult' = runResult
       ELSE pc' = "returned" /\ runResult' = "Err"
    /\ UNCHANGED << file, config, now, worker, queue, tasks, exec_futs,
                    next, reported, startOrder, doneOrder >>

(* CpuPool::new(config.thread_count): the pool builder asserts size > 0. *)
NewPool ==
    /\ pc = "pool"
    /\ IF config.thread_count > 0
       THEN /\ worker' = [ w \in PoolWorkers(config.thread_count) |-> 0 ]
            /\ pc' = "dispatch"
            /\ runResult' = runResult
       ELSE /\ worker' = worker
            /\ pc' = "exited"
            /\ runResult' = "Panic"
    /\ UNCHANGED << file, config, now, queue, tasks, exec_futs, next,
                    reported, startOrder, doneOrder >>

(* One iteration of the map closure: render, spawn_fn, sleep/select. *)
Dispatch ==
    /\ pc = "dispatch"
    /\ Len(exec_futs) < N
    /\ LET i   == Len(exec_futs) + 1
           cmd == Render(config, config.hostnames[i])
       IN  /\ tasks' = [ tasks EXCEPT ![i].st = "queued", ![i].cmd = cmd,
                                      ![i].subT = now ]
           /\ queue' = Append(queue, i)
           /\ exec_futs' = Append(exec_futs,
                  [ task |-> i, when |-> Deadline(now, config.timeout_ms) ])
    /\ UNCHANGED << file, config, pc, runResult, now, worker, next,
                    reported, startOrder, doneOrder >>

(* Variant: the dispatcher starts waiting as soon as one Task exists. *)
Collect_AfterFirst ==
    /\ pc = "dispatch"
    /\ (Len(exec_futs) >= 1 \/ N = 0)
    /\ pc' = "wait"
    /\ UNCHANGED << file, config, runResult, now, worker, queue, tasks,
                    exec_futs, next, reported, startOrder, doneOrder >>

(* .collect() is complete. *)
Collect ==
    /\ pc = "dispatch"
    /\ Len(exec_futs) = N
    /\ pc' = "wait"
    /\ UNCHANGED << file, config, runResult, now, worker, queue, tasks,
                    exec_futs, next, reported, startOrder, doneOrder >>

(* Variant: all tasks send their result through one shared slot, so the   *)
(* race sees the result that arrived last.                                *)
WaitOutcome_SharedSlot ==
    SelectPoll(CurrentFut, now,
               IF doneOrder = << >> THEN tasks[CurrentFut.task]
               ELSE tasks[doneOrder[Len(doneOrder)]])

(* The race of the current future against its own task's result. *)
WaitOutcome == SelectPoll(CurrentFut, now, tasks[CurrentFut.task])

WaitReady == pc = "wait" /\ next <= Len(exec_futs) /\ WaitOutcome.kind # "Pending"

(* Variant: a timeout kills the executor call and frees its worker. *)
Wait_KillsOnTimeout ==
    /\ WaitReady
    /\ LET o == WaitOutcome
           i == CurrentFut.task
       IN  /\ reported' = Report(reported, o)
           /\ next' = next + 1
           /\ pc' = "wait"
           /\ runResult' = runResult
           /\ IF o.kind = "TimedOut" /\ tasks[i].st = "running"
              THEN /\ tasks' = [ tasks EXCEPT ![i].dropped = TRUE,
                                              ![i].st = "cancelled" ]
                   /\ worker' = [ w \in DOMAIN worker |->
                                    IF worker[w] = i THEN 0 ELSE worker[w] ]
              ELSE /\ tasks' = [ tasks EXCEPT ![i].dropped = TRUE ]
                   /\ worker' = worker
    /\ UNCHANGED << file, config, now, queue, exec_futs, startOrder, doneOrder >>

(* exec_fut.wait() and the match on its result.  The losing half of the   *)
(* select is dropped with the result; a dropped CpuFuture cancels its     *)
(* computation if that has not started.                                   *)
Wait ==
    /\ WaitReady
    /\ LET o == WaitOutcome
       IN  /\ reported' = Report(reported, o)
           /\ tasks' = [ tasks EXCEPT ![CurrentFut.task].dropped = TRUE ]
           /\ next' = next + 1
           /\ IF AfterOutcome(o) = "wait"
              THEN pc' = "wait" /\ runResult' = runResult
              ELSE pc' = "returned" /\ runResult' = "Err"
    /\ UNCHANGED << file, config, now, worker, queue, exec_futs, startOrder,
                    doneOrder >>

(* Variant: a run that reported nothing is an error. *)
Return_EmptyIsError ==
    /\ pc = "wait"
    /\ next > Len(exec_futs)
    /\ pc' = "returned"
    /\ runResult' = IF reported = << >> THEN "Err" ELSE "Ok"
    /\ UNCHANGED << file, config, now, worker, queue, tasks, exec_futs,
                    next, reported, startOrder, doneOrder >>

(* Ok(()) at the end of run(). *)
Return ==
    /\ pc = "wait"
    /\ next > Len(exec_futs)
    /\ pc' = "returned"
    /\ runResult' = "Ok"
    /\ UNCHANGED << file, config, now, worker, queue, tasks, exec_futs,
                    next, reported, startOrder, doneOrder >>

(* main: process::exit ends every thread of the process. *)
Exit ==
    /\ pc = "returned"
    /\ pc' = "exited"
    /\ UNCHANGED << file, config, runResult, now, worker, queue, tasks,
                    exec_futs, next, reported, startOrder, doneOrder >>

(* --------------------------- pool workers ----------------------------- *)
(* A worker receives the next message and polls it: a cancelled task is   *)
(* dropped without running its closure, any other runs run_cmd.           *)
WorkerTake(w) ==
    /\ pc \in { "dispatch", "wait", "returned" }
    /\ worker[w] = 0
    /\ queue # << >>
    /\ LET i == queue[RecvIndex(queue)]
       IN  /\ queue' = RemoveAt(queue, RecvIndex(queue))
           /\ IF tasks[i].dropped
              THEN /\ tasks' = [ tasks EXCEPT ![i].st = "cancelled" ]
                   /\ UNCHANGED << worker, startOrder >>
              ELSE /\ tasks' = [ tasks EXCEPT ![i].st = "running",
                                              ![i].startT = now ]
                   /\ worker' = [ worker EXCEPT ![w] = i ]
                   /\ startOrder' = Append(startOrder, i)
    /\ UNCHANGED << file, config, pc, runResult, now, exec_futs, next, reported,
                    doneOrder >>

(* run_cmd returns: the shell's captured output, or a launch error. *)
ExecFinish(w, k) ==
    /\ pc \in { "dispatch", "wait", "returned" }
    /\ worker[w] # 0
    /\ LET i == worker[w]
       IN  tasks' = [ tasks EXCEPT ![i].st = "done", ![i].kind = k,
                          ![i].out = IF k = "ok" THEN tasks[i].cmd ELSE <<>>,
                          ![i].finT = now ]
    /\ worker' = [ worker EXCEPT ![w] = 0 ]
    /\ doneOrder' = Append(doneOrder, worker[w])
    /\ UNCHANGED << file, config, pc, runResult, now, queue, exec_futs,
                    next, reported, startOrder >>

(* ------------------------------ clock --------------------------------- *)
(* Time passes while the dispatch loop has iterations left and while the   *)
(* dispatcher is parked in wait(); once every deadline that can exist has  *)
(* passed, further time changes nothing and the clock is stopped.          *)
Tick ==
    /\ \/ pc = "dispatch" /\ Len(exec_futs) < N /\ now < MaxDispatchTime
       \/ /\ pc = "wait" /\ next <= Len(exec_futs) /\ ~WaitReady
          /\ now < MaxDispatchTime + config.timeout_ms
    /\ now' = now + 1
    /\ UNCHANGED << file, config, pc, runResult, worker, queue, tasks,
                    exec_futs, next, reported, startOrder, doneOrder >>

Next ==
    \/ LoadConfig
    \/ NewPool
    \/ Dispatch
    \/ Collect
    \/ Wait
    \/ Return
    \/ Exit
    \/ \E w \in DOMAIN worker : WorkerTake(w)
    \/ \E w \in DOMAIN worker, k \in { "ok", "fail" } : ExecFinish(w, k)
    \/ Tick

Spec == Init /\ [][Next]_vars

(* The main thread keeps running and the timer threads keep time; nothing *)
(* is assumed about the pool's workers or about run_cmd ever returning.   *)
MainThread ==
    LoadConfig \/ NewPool \/ Dispatch \/ Collect \/ Wait \/ Return \/ Exit

(* Termination is checked for the configurations that get past the pool  *)
(* construction; the text of a hostname has no influence on scheduling,   *)
(* so one hostname is used.                                               *)
LiveConfigs ==
    { c \in Configs :
        /\ c.thread_count > 0
        /\ \A i \in 1 .. Len(c.hostnames) : c.hostnames[i] = <<"a">> }

InitLive == Init /\ file = "ok" /\ config \in LiveConfigs

SpecLive == InitLive /\ [][Next]_vars /\ WF_vars(MainThread) /\ WF_vars(Tick)

TypeOK ==
    /\ pc \in { "load", "pool", "dispatch", "wait", "returned", "exited" }
    /\ runResult \in { "none", "Ok", "Err", "Panic" }
    /\ now \in 0 .. (MaxDispatchTime + MaxTimeout)
    /\ next \in 1 .. (N + 1)
    /\ Len(reported) <= N

(* ----------------------- rendering on its own ------------------------- *)
(* Configurations that vary the template, the tag and the hostnames; only  *)
(* the dispatch loop runs, which renders one command per hostname.         *)
Alphabet == { "H", "e" }

RenderHosts == { << >>, <<"a">>, <<"H", "e">> }

RenderConfigs ==
    [ hostnames    : SeqsUpTo(RenderHosts, 2) \ { << >> },
      cmd_to_run   : SeqsUpTo(Alphabet, MaxTemplateLen),
      hostname_tag : SeqsUpTo(Alphabet, MaxTagLen),
      thread_count : { 1 },
      timeout_ms   : { 0 } ]

InitRender ==
    /\ file = "ok"
    /\ config \in RenderConfigs
    /\ pc = "load"
    /\ runResult = "none"
    /\ now = 0
    /\ worker = << >>
    /\ queue = << >>
    /\ tasks = [ i \in 1 .. Len(config.hostnames) |-> NoTask(i) ]
    /\ exec_futs = << >>
    /\ next = 1
    /\ reported = << >>
    /\ startOrder = << >>
    /\ doneOrder = << >>

NextRender ==
    \/ LoadConfig
    \/ NewPool
    \/ Dispatch
    \/ Collect

SpecRender == InitRender /\ [][NextRender]_vars

(* ============================ properties ============================== *)
Finished == pc \in { "returned", "exited" }

Kinds == { reported[k].kind : k \in 1 .. Len(reported) }

Running == { i \in 1 .. N : tasks[i].st = "running" }

(* C1: a run over N hostnames reports exactly N Outcomes, one per Task, in *)
(* every mix of Success, LaunchFailure and TimedOut: each finished wait    *)
(* has added exactly one Outcome, the k-th Outcome belongs to Task k, and  *)
(* a run that returned Ok has reported all N.                              *)
C1_OneOutcomePerTask ==
    /\ Len(reported) = next - 1
    /\ \A k \in 1 .. Len(reported) : reported[k].task = k
    /\ (Finished /\ runResult = "Ok") => Len(reported) = N

C1_Witness ==
    /\ runResult = "Ok"
    /\ N = 2
    /\ reported[1].kind = "LaunchFailure"
    /\ reported[2].kind = "TimedOut"

(* C2: the i-th reported Outcome is the Outcome of the Task rendered from  *)
(* hostnames[i], whatever the order in which the executor calls complete:  *)
(* it comes from the i-th future, and a Success carries the output of the  *)
(* command rendered for hostnames[i].                                      *)
C2_HostnameOrder ==
    \A k \in 1 .. Len(reported) :
        /\ reported[k].task = exec_futs[k].task
        /\ exec_futs[k].task = k
        /\ reported[k].kind = "Success" =>
               reported[k].out = Render(config, config.hostnames[k])

C2_Witness ==
    /\ Len(reported) = 2
    /\ config.hostnames[1] # config.hostnames[2]
    /\ doneOrder = << 2, 1 >>
    /\ reported[1].kind = "Success"
    /\ reported[2].kind = "Success"

(* C3: a Task whose executor call completed before its deadline elapsed is *)
(* never reported TimedOut.                                                *)
C3_InTimeNeverTimedOut ==
    \A k \in 1 .. Len(reported) :
        (tasks[k].st = "done" /\ tasks[k].finT < exec_futs[k].when)
            => reported[k].kind # "TimedOut"

(* The Outcome of Task j's own race: its executor result if that arrived   *)
(* before its deadline, TimedOut otherwise.                                *)
OwnRaceKind(j) ==
    IF tasks[j].st = "done" /\ tasks[j].finT < exec_futs[j].when
    THEN ActionOutcome(tasks[j]).kind
    ELSE "TimedOut"

(* C4: with workerCount >= number of hostnames, a timeout of Task i does   *)
(* not change the Outcome in the slot of another Task j: slot j holds the  *)
(* Outcome of j's own race also when some other Task was reported TimedOut.*)
C4_TimeoutIsolated ==
    (config.thread_count >= N) =>
        \A j \in 1 .. Len(reported) :
            (\E i \in 1 .. Len(reported) : i # j /\ reported[i].kind = "TimedOut")
                => reported[j].kind = OwnRaceKind(j)

(* C5: a launch failure shows as LaunchFailure at the index of the Task    *)
(* whose executor failed and nowhere else, every other slot holds its own  *)
(* Task's result or TimedOut, and the run goes on to report every Task and *)
(* return Ok.                                                              *)
C5_LaunchFailureIsolated ==
    /\ \A k \in 1 .. Len(reported) :
          /\ reported[k].kind = "LaunchFailure" =>
                 (tasks[k].st = "done" /\ tasks[k].kind = "fail")
          /\ reported[k].kind = "Success" =>
                 (tasks[k].st = "done" /\ tasks[k].kind = "ok")
    /\ ("LaunchFailure" \in Kinds) =>
          /\ runResult \in { "none", "Ok" }
          /\ Finished => Len(reported) = N

C5_Witness ==
    /\ Finished
    /\ Len(reported) = 2
    /\ reported[1].kind = "LaunchFailure"
    /\ reported[2].kind = "Success"

(* C6: at every moment at most workerCount executor calls are running,     *)
(* abandoned calls of timed-out Tasks included.                            *)
C6_BoundedParallelism == Cardinality(Running) <= config.thread_count

C6_Witness ==
    /\ Cardinality(Running) = config.thread_count
    /\ \E i \in Running : tasks[i].dropped /\ reported[i].kind = "TimedOut"
    /\ \E j \in 1 .. N : tasks[j].st = "queued"

C8_NoWholeRunFailureAfterSubmit ==
    /\ (exec_futs # << >>) => runResult \in { "none", "Ok" }
    /\ (exec_futs # << >> /\ Finished) => runResult = "Ok"
    /\ (runResult \in { "Err", "Panic" }) => (exec_futs = << >> /\ startOrder = << >>)

C8_Witness ==
    /\ Finished
    /\ runResult = "Ok"
    /\ N = 2
    /\ Kinds = { "TimedOut" }

(* C9: a configuration with workerCount = 0 is rejected before any Task is *)
(* submitted, and run() signals it as an error result.                     *)
C9_ZeroWorkersIsConfigError ==
    (file = "ok" /\ config.thread_count = 0 /\ pc \notin { "load", "pool" })
        => (runResult = "Err" /\ exec_futs = << >>)

(* C10: with timeoutMillis = 0 every reported Outcome is TimedOut, also    *)
(* for a Task whose executor call took time.                               *)
C10_ZeroTimeoutTimesOut ==
    (config.timeout_ms = 0) =>
        \A k \in 1 .. Len(reported) : reported[k].kind = "TimedOut"

C10_Witness ==
    /\ config.timeout_ms = 0
    /\ \E k \in 1 .. Len(reported) :
          /\ tasks[k].st = "done"
          /\ tasks[k].finT > tasks[k].startT
          /\ reported[k].kind = "TimedOut"
Started(i) == \E n \in 1 .. Len(startOrder) : startOrder[n] = i

(* C11: a reported Outcome is never changed afterwards, and the completion *)
(* of the abandoned executor call of a Task reported TimedOut never shows  *)
(* in the slot of a later Task: every slot holds an Outcome of its own     *)
(* Task.                                                                   *)
C11_AbandonedResultDiscarded ==
    [][ /\ \A k \in 1 .. Len(reported) :
              Len(reported') >= k /\ reported'[k] = reported[k]
        /\ \A j \in 1 .. Len(reported') :
              \A i \in 1 .. (j - 1) :
                  reported'[i].kind = "TimedOut" =>
                      /\ reported'[j].task # i
                      /\ reported'[j].kind = "Success" =>
                             reported'[j].out = tasks'[j].cmd ]_vars

(* Task 1 was reported TimedOut, its executor call returned later than the *)
(* moment of that report, and Task 2 has been reported since.              *)
C11_Witness ==
    /\ Len(reported) = 2
    /\ reported[1].kind = "TimedOut"
    /\ tasks[1].st = "done"
    /\ tasks[1].finT > exec_futs[1].when
    /\ tasks[1].finT > tasks[2].subT

C13_AtMostOneInvocation ==
    \A m, n \in 1 .. Len(startOrder) :
        m # n => startOrder[m] # startOrder[n]

C13_Witness ==
    /\ pc = "exited"
    /\ Len(reported) = 2
    /\ reported[1].kind = "LaunchFailure"
    /\ reported[2].kind = "TimedOut"
    /\ startOrder = << 1, 2 >>
    /\ worker = [ w \in DOMAIN worker |-> 0 ]
    /\ queue = << >>

(* C14: when a Task is reported TimedOut while its executor call is        *)
(* running, the call keeps running on its worker; a running call leaves    *)
(* its worker only by returning.                                           *)
C14_TimeoutDoesNotKill ==
    [][ \A i \in 1 .. N :
          tasks[i].st = "running" =>
              \/ /\ tasks'[i].st = "running"
                 /\ \E w \in DOMAIN worker : worker[w] = i /\ worker'[w] = i
              \/ /\ tasks'[i].st = "done"
                 /\ doneOrder' = Append(doneOrder, i) ]_vars

C14_Witness ==
    \E i \in 1 .. Len(reported) :
        /\ reported[i].kind = "TimedOut"
        /\ next > i
        /\ tasks[i].st = "running"
        /\ tasks[i].startT < exec_futs[i].when
        /\ \E w \in DOMAIN worker : worker[w] = i

(* C15: with an empty hostnames list (and a valid workerCount) no Task is  *)
(* created, the executor is never invoked, nothing is reported and run()   *)
(* returns Ok.                                                             *)
C15_EmptyHostnames ==
    (file = "ok" /\ N = 0 /\ config.thread_count > 0) =>
        /\ exec_futs = << >>
        /\ queue = << >>
        /\ startOrder = << >>
        /\ reported = << >>
        /\ runResult \in { "none", "Ok" }
        /\ Finished => runResult = "Ok"

C15_Witness ==
    /\ file = "ok"
    /\ N = 0
    /\ pc = "exited"
    /\ runResult = "Ok"
    /\ reported = << >>
(* t occurs in s at position i. *)
OccursAt(s, t, i) ==
    /\ i + Len(t) - 1 <= Len(s)
    /\ SubSeq(s, i, i + Len(t) - 1) = t

(* The occurrences that get replaced: an occurrence counts unless it       *)
(* overlaps an occurrence that starts before it and counts.                *)
Occurrences(s, t) ==
    CHOOSE P \in SUBSET (1 .. Len(s) + 1) :
        \A i \in 1 .. Len(s) + 1 :
            i \in P <=> /\ OccursAt(s, t, i)
                        /\ ~\E p \in P : p < i /\ i < p + Len(t)

(* s with the text h in place of each occurrence in P of a text of length  *)
(* len, read from position i on.                                           *)
RECURSIVE Spliced(_, _, _, _, _)
Spliced(s, P, len, h, i) ==
    IF i > Len(s) + 1 THEN << >>
    ELSE (IF i \in P THEN h ELSE << >>)
         \o (IF i <= Len(s) /\ ~\E p \in P : p <= i /\ i < p + len
             THEN << s[i] >> ELSE << >>)
         \o Spliced(s, P, len, h, i + 1)

(* C16: the command rendered for a hostname is the template with every     *)
(* occurrence of the tag replaced by that hostname and nothing else        *)
(* changed (occurrences inside an inserted hostname are left alone); when  *)
(* the tag does not occur the command is the template; rendering never     *)
(* fails the run.                                                          *)
C16_RenderReplacesEveryOccurrence ==
    \A i \in 1 .. Len(exec_futs) :
        LET T == config.cmd_to_run
            g == config.hostname_tag
            h == config.hostnames[i]
        IN  /\ tasks[i].cmd = Spliced(T, Occurrences(T, g), Len(g), h, 1)
            /\ (~\E j \in 1 .. Len(T) + 1 : OccursAt(T, g, j)) => tasks[i].cmd = T
            /\ runResult = "none"

C16_Witness ==
    /\ config.cmd_to_run = << "H", "e", "H" >>
    /\ config.hostname_tag = << "H" >>
    /\ config.hostnames = << << "H", "e" >>, << "a" >> >>
    /\ pc = "wait"
    /\ tasks[1].cmd = << "H", "e", "e", "H", "e" >>
    /\ tasks[2].cmd = << "a", "e", "a" >>
(* C17: once the pool exists, run() returns Ok with all N Outcomes         *)
(* reported, whether or not any executor call ever returns.                *)
C17_RunTerminates ==
    (pc = "dispatch") ~> (pc = "returned" /\ runResult = "Ok" /\ Len(reported) = N)

C17_Witness ==
    /\ pc = "returned"
    /\ runResult = "Ok"
    /\ N = 2
    /\ Len(reported) = N
    /\ doneOrder = << >>
    /\ \E i \in 1 .. N : tasks[i].st = "running"
(* C18: every Task has been submitted to the pool before the dispatcher    *)
(* waits for the first Outcome, so that a later Task can run and complete  *)
(* while the dispatcher still waits on an earlier one.                     *)
C18_AllSubmittedBeforeWait ==
    (pc = "wait" \/ reported # << >>) =>
        /\ Len(exec_futs) = N
        /\ \A i \in 1 .. N : tasks[i].st # "none" /\ tasks[i].subT >= 0

C18_Witness ==
    /\ pc = "wait"
    /\ N = 2
    /\ next = 1
    /\ reported = << >>
    /\ tasks[1].st = "running"
    /\ tasks[2].st = "done"
    /\ ~WaitReady

(* C19: the deadline of a Task runs from its dispatch: a Task is reported  *)
(* Success or LaunchFailure only if its executor call returned less than   *)
(* timeoutMillis after the dispatch, and a Task that the dispatcher        *)
(* examines when that deadline has passed is reported TimedOut, whether    *)
(* or not its executor call has returned.                                  *)
C19_DeadlineFromDispatch ==
    /\ [](\A k \in 1 .. Len(reported) :
             reported[k].kind \in { "Success", "LaunchFailure" } =>
                 /\ tasks[k].st = "done"
                 /\ tasks[k].finT < tasks[k].subT + config.timeout_ms)
    /\ [][ (next' = next + 1 /\ now >= tasks[next].subT + config.timeout_ms)
               => reported'[next].kind = "TimedOut" ]_vars

C19_Witness ==
    /\ Len(reported) = 2
    /\ reported[1].kind = "TimedOut"
    /\ tasks[1].st = "running"
    /\ reported[2].kind = "TimedOut"
    /\ tasks[2].st = "done"
    /\ tasks[2].finT < tasks[2].subT + config.timeout_ms
    /\ tasks[2].startT = tasks[2].subT
====
